---- MODULE Spec2Model ----
(***************************************************************************)
(* Turn-taking orchestration core of Multi-AI-Chat.                        *)
(*                                                                         *)
(* The React component App (src/unnamed/part_001) owns the conversation    *)
(* state; the module src/services/geminiService.ts owns the per-agent      *)
(* sessions and the process-wide provider/model/credential binding.        *)
(*                                                                         *)
(* One action of the model is one event-loop task of the program: a user   *)
(* intent handler, the pacing timer firing, or the continuation of an      *)
(* awaited external call.  The state updates a task queues are batched,    *)
(* the component re-renders, and the two effects (orchestration loop and   *)
(* summary) run on the new render before the next task; that is the        *)
(* operator Render, applied at the end of every action.                    *)
(***************************************************************************)
EXTENDS Integers, Sequences, FiniteSets, TLC

VARIABLES
    config,            \* useState<AppConfig>
    messages,          \* useState<Message[]>      (the transcript)
    status,            \* useState<ChatStatus>
    turnCount,         \* useState(0)
    currentSpeakerId,  \* useState<string | null>
    isSummarizing,     \* useState(false)
    hasSummarizedRef,  \* useRef(false)
    timer,             \* the pacing setTimeout of the current orchestration effect
    inflight,          \* outstanding generateResponse calls (awaited by processTurn)
    summaries,         \* outstanding generateMeetingSummary calls
    chatSessions,      \* geminiService: agent id -> Chat object
    openAISessions,    \* geminiService: agent id -> message array
    heap,              \* contents of the Chat objects / message arrays, by reference
    activeProvider,    \* geminiService module state
    activeModel,
    activeApiKey,
    epoch,             \* number of initializeChats calls so far (names the objects they allocate)
    fresh,             \* number of agent ids minted by handleAgentCountChange
    posts,             \* number of user posts and keyless start attempts so far
    lastIntent,        \* history: the last of start / stop / reset / userSubmit (the last service call in SpecService)
    started,           \* history: a start succeeded and no reset or failed start followed
    succ,              \* history: successful turns since the last start or reset
    summaryCalls,      \* history: summary invocations since the last start or reset
    unanswered,        \* history: the user post made while ACTIVE after which no generate call has started yet
    snapshot           \* history: maxTurns, roster and topic of the configuration at the last successful initializeChats

vars == <<config, messages, status, turnCount, currentSpeakerId, isSummarizing,
          hasSummarizedRef, timer, inflight, summaries, chatSessions,
          openAISessions, heap, activeProvider, activeModel, activeApiKey,
          epoch, fresh, posts, lastIntent, started, succ, summaryCalls,
          unanswered, snapshot>>

----------------------------------------------------------------------------
(* Bounds *)

MaxPosts == 1        \* user posts and keyless start attempts in one behaviour
MaxInflight == 2     \* outstanding generateResponse calls
MaxEpoch == 2        \* initializeChats calls in a behaviour of Spec
OneRun == 1          \* initializeChats calls in a behaviour of the configuration specifications
MaxTurnsCfg == 2     \* values of the Max Turns input: 1..MaxTurnsCfg
PresetMaxTurns == 1  \* maxTurns of the default preset
MaxAgents == 3       \* agent-count slider: 2..MaxAgents
MaxFresh == 1        \* agent ids minted by the slider
MaxUserTexts == 1    \* distinct user inputs
MaxMemory == 3       \* a session takes a new call while it holds fewer entries (SpecService)
MorePosts == 2       \* user posts and keyless start attempts in one behaviour of SpecRepeat

----------------------------------------------------------------------------
(* types.ts *)

IDLE == "IDLE"
ACTIVE == "ACTIVE"
PAUSED == "PAUSED"
COMPLETED == "COMPLETED"
ERROR == "ERROR"
ChatStatus == {IDLE, ACTIVE, PAUSED, COMPLETED, ERROR}

None == "null"                 \* currentSpeakerId === null
SYSTEM == "SYSTEM"
USER == "USER"
SUMMARY_AGENT == "SUMMARY"
ENV_API_KEY == <<>>            \* no key in the build environment

Message(senderId, text) == [senderId |-> senderId, text |-> text]

\* Texts are tuples of string fragments (template literals keep their parts).
NoResponse == <<"[No response generated]">>
TopicText == "topic"
RulesText == "rules"

\* Credentials are tuples of characters.  The ones the user can type in the
\* model: empty, blank, a Gemini key, an OpenAI-style key.
KeyBlank == <<>>
KeySpaces == <<" ">>
KeyGemini == <<"A", "I", "z", "a", "1">>
KeyOpenAI == <<"s", "k", "-", "1">>
ApiKeys == {KeyBlank, KeySpaces, KeyGemini, KeyOpenAI}

UserInputs == <<"u1", "u2", "u3">>
UserTexts == {<<UserInputs[i]>> : i \in 1..MaxUserTexts}
Responses == {<<"reply">>}            \* text returned by the provider (<<>> would be a missing text)

Agent(id) == [id |-> id, name |-> <<"name", id>>, systemPrompt |-> <<"persona", id>>]
PresetIds == <<"A", "B", "C", "D", "E", "F">>
MintedIds == <<"N1", "N2", "N3", "N4">>      \* `${Date.now()}-${i}`: a new id each time

----------------------------------------------------------------------------
(* geminiService.ts: provider resolution *)

IsSpace(c) == c \in {" ", "\t", "\n"}

RECURSIVE TrimStart(_)
TrimStart(k) == IF k # <<>> /\ IsSpace(Head(k)) THEN TrimStart(Tail(k)) ELSE k

RECURSIVE TrimEnd(_)
TrimEnd(k) ==
    IF k # <<>> /\ IsSpace(k[Len(k)]) THEN TrimEnd(SubSeq(k, 1, Len(k) - 1)) ELSE k

Trim(k) == TrimEnd(TrimStart(k))

LowerChar(c) ==
    IF c = "Y" THEN "y" ELSE IF c = "A" THEN "a" ELSE IF c = "I" THEN "i"
    ELSE IF c = "Z" THEN "z" ELSE IF c = "S" THEN "s" ELSE IF c = "K" THEN "k"
    ELSE IF c = "O" THEN "o" ELSE IF c = "R" THEN "r" ELSE IF c = "G" THEN "g"
    ELSE IF c = "P" THEN "p" ELSE IF c = "L" THEN "l" ELSE IF c = "X" THEN "x"
    ELSE c

toLowerCase(k) == [i \in 1..Len(k) |-> LowerChar(k[i])]

startsWith(k, prefix) ==
    Len(k) >= Len(prefix) /\ SubSeq(k, 1, Len(prefix)) = prefix

\* A detection that tests the 'sk-' prefix before the 'sk-or-' prefix.
detectProviderFromApiKey_OpenAIFirst(apiKey) ==
    LET trimmed == Trim(apiKey)
        lower == toLowerCase(trimmed)
    IN  IF trimmed = <<>> THEN "gemini"
        ELSE IF startsWith(trimmed, <<"A", "I", "z", "a">>)
                \/ startsWith(lower, <<"y", "a", "2", "9", ".">>) THEN "gemini"
        ELSE IF startsWith(trimmed, <<"g", "s", "k", "_">>) THEN "groq"
        ELSE IF startsWith(trimmed, <<"p", "p", "l", "x", "-">>) THEN "perplexity"
        ELSE IF startsWith(trimmed, <<"s", "k", "-">>) THEN "openai"
        ELSE IF startsWith(trimmed, <<"s", "k", "-", "o", "r", "-">>)
                \/ startsWith(trimmed, <<"o", "r", "-">>) THEN "openrouter"
        ELSE "openai-compatible"

detectProviderFromApiKey(apiKey) ==
    LET trimmed == Trim(apiKey)
        lower == toLowerCase(trimmed)
    IN  IF trimmed = <<>> THEN "gemini"
        ELSE IF startsWith(trimmed, <<"A", "I", "z", "a">>)
                \/ startsWith(lower, <<"y", "a", "2", "9", ".">>) THEN "gemini"
        ELSE IF startsWith(trimmed, <<"g", "s", "k", "_">>) THEN "groq"
        ELSE IF startsWith(trimmed, <<"p", "p", "l", "x", "-">>) THEN "perplexity"
        ELSE IF startsWith(trimmed, <<"s", "k", "-", "o", "r", "-">>)
                \/ startsWith(trimmed, <<"o", "r", "-">>) THEN "openrouter"
        ELSE IF startsWith(trimmed, <<"s", "k", "-">>) THEN "openai"
        ELSE "openai-compatible"

PROVIDER_MODEL_OPTIONS(provider) ==
    IF provider = "gemini" THEN
        <<"gemini-2.5-flash", "gemini-2.0-flash", "gemini-2.0-flash-lite-preview-02-04",
          "gemini-1.5-pro", "gemini-1.5-flash">>
    ELSE IF provider = "openai" THEN <<"gpt-4o-mini", "gpt-4o">>
    ELSE IF provider = "groq" THEN <<"llama-3.3-70b-versatile", "mixtral-8x7b-32768">>
    ELSE IF provider = "perplexity" THEN
        <<"llama-3.1-sonar-large-128k-chat", "llama-3.1-70b-instruct">>
    ELSE IF provider = "openrouter" THEN <<"gpt-4o-mini", "deepseek-chat">>
    ELSE <<"gpt-4o-mini", "gpt-3.5-turbo">>

getDefaultModelForProvider(provider) == PROVIDER_MODEL_OPTIONS(provider)[1]

\* Credentials for the detection: every initial segment of the recognized
\* prefixes and of their variants in the other letter case, with or without
\* surrounding blanks, alone or followed by more characters.
Stems ==
    <<<<"A", "I", "z", "a">>, <<"a", "i", "z", "a">>, <<"A", "I", "Z", "A">>,
      <<"y", "a", "2", "9", ".">>, <<"Y", "A", "2", "9", ".">>, <<"Y", "a", "2", "9", ".">>,
      <<"g", "s", "k", "_">>, <<"G", "S", "K", "_">>,
      <<"p", "p", "l", "x", "-">>, <<"P", "P", "L", "X", "-">>,
      <<"s", "k", "-", "o", "r", "-">>, <<"S", "K", "-", "O", "R", "-">>,
      <<"o", "r", "-">>, <<"O", "R", "-">>,
      <<"s", "k", "-">>, <<"S", "K", "-">>,
      <<"x", "s", "k", "-">>>>
Pads == {<<>>, <<" ">>, <<"\t", " ">>}
Tails == {<<>>, <<"1">>, <<"s", "k", "-">>, <<" ", "1">>}
StemPrefixes ==
    UNION {{SubSeq(Stems[i], 1, n) : n \in 0..Len(Stems[i])} : i \in 1..Len(Stems)}
Credentials ==
    {pad \o stem \o tail \o end :
        pad \in Pads, stem \in StemPrefixes, tail \in Tails, end \in {<<>>, <<" ">>}}

\* config.apiKey?.trim() || ENV_API_KEY?.trim() || ''
getEffectiveApiKey(cfg) ==
    IF Trim(cfg.apiKey) # <<>> THEN Trim(cfg.apiKey) ELSE Trim(ENV_API_KEY)

----------------------------------------------------------------------------
(* geminiService.ts: sessions *)

Ref(e, id) == [e |-> e, a |-> id]

combinedSystemInstruction(agent, globalRules) ==
    [role |-> "system", content |-> agent.systemPrompt \o <<"rules", globalRules>>]

AgentIdsOf(agents) == {agents[i].id : i \in 1..Len(agents)}

AgentById(agents, id) == CHOOSE i \in 1..Len(agents) : agents[i].id = id

\* References still held by the session maps or by an awaiting call; the
\* other objects are garbage and leave the heap.
Live(chat, open, calls) ==
    {chat[a] : a \in DOMAIN chat} \cup {open[a] : a \in DOMAIN open}
        \cup UNION {calls[i].sess : i \in 1..Len(calls)}

Collect(h, chat, open, calls) ==
    [r \in (DOMAIN h) \cap Live(chat, open, calls) |-> h[r]]

\* initializeChats after the credential check: the binding is set, both maps
\* are replaced, and one fresh session per agent is created for the provider.
\* svc is the record of the service's module state.
InitSessions(svc, apiKey, modelName, agents, globalRules) ==
    LET provider == detectProviderFromApiKey(apiKey)
        e == svc.epoch + 1
        ids == AgentIdsOf(agents)
        created == [r \in {Ref(e, id) : id \in ids} |->
                      IF provider = "gemini" THEN <<>>
                      ELSE <<combinedSystemInstruction(agents[AgentById(agents, r.a)], globalRules)>>]
    IN  [svc EXCEPT
           !.activeProvider = provider,
           !.activeModel = IF modelName # "" THEN modelName ELSE getDefaultModelForProvider(provider),
           !.activeApiKey = apiKey,
           !.chatSessions = IF provider = "gemini" THEN [id \in ids |-> Ref(e, id)] ELSE <<>>,
           !.openAISessions = IF provider = "gemini" THEN <<>> ELSE [id \in ids |-> Ref(e, id)],
           !.heap = [r \in (DOMAIN svc.heap) \cup (DOMAIN created) |->
                       IF r \in DOMAIN created THEN created[r] ELSE svc.heap[r]],
           !.epoch = e]

\* initializeChats when the provider SDK constructor throws: the binding is
\* already set and the maps are already cleared.
InitSessionsThrows(svc, apiKey, modelName) ==
    LET provider == detectProviderFromApiKey(apiKey)
    IN  [svc EXCEPT
           !.activeProvider = provider,
           !.activeModel = IF modelName # "" THEN modelName ELSE getDefaultModelForProvider(provider),
           !.activeApiKey = apiKey,
           !.chatSessions = <<>>,
           !.openAISessions = <<>>,
           !.epoch = svc.epoch + 1]

\* An initializeChats that sets the binding and clears the maps before it
\* validates the credential.
initializeChats_ClearsFirst(svc, apiKey, modelName, agents, globalRules) ==
    IF Trim(apiKey) = <<>>
    THEN InitSessionsThrows(svc, Trim(apiKey), modelName)
    ELSE InitSessions(svc, Trim(apiKey), modelName, agents, globalRules)

\* initializeChats: a credential that is blank after trimming is rejected
\* before any module state is written.
initializeChats(svc, apiKey, modelName, agents, globalRules) ==
    IF Trim(apiKey) = <<>>
    THEN svc
    ELSE InitSessions(svc, Trim(apiKey), modelName, agents, globalRules)

Service == [activeProvider |-> activeProvider, activeModel |-> activeModel,
            activeApiKey |-> activeApiKey, chatSessions |-> chatSessions,
            openAISessions |-> openAISessions, heap |-> heap, epoch |-> epoch]

----------------------------------------------------------------------------
(* App: state snapshot and effects *)

\* The component state one render sees, with the pending timer, the awaited
\* summary calls and the one-shot latch.
Ui == [status |-> status, messages |-> messages, turnCount |-> turnCount,
       currentSpeakerId |-> currentSpeakerId, isSummarizing |-> isSummarizing,
       hasSummarized |-> hasSummarizedRef, timer |-> timer,
       summaries |-> summaries, summaryCalls |-> summaryCalls]

\* An addMessage that puts the new entry in front of the transcript.
addMessage_Prepend(ui, senderId, text) ==
    [ui EXCEPT !.messages = <<Message(senderId, text)>> \o @]

addMessage(ui, senderId, text) ==
    [ui EXCEPT !.messages = Append(@, Message(senderId, text))]

NonSystemIdx(msgs) == {i \in 1..Len(msgs) : msgs[i].senderId # SYSTEM}

\* [...messages].reverse().find(m => m.senderId !== 'SYSTEM')
lastContentMessage(msgs) ==
    LET idx == NonSystemIdx(msgs)
    IN  msgs[CHOOSE i \in idx : \A j \in idx : j <= i]

senderName(agents, id) ==
    IF \E i \in 1..Len(agents) : agents[i].id = id
    THEN agents[AgentById(agents, id)].name
    ELSE <<"Other">>

promptText(ui, cfg) ==
    IF Len(ui.messages) > 0 /\ NonSystemIdx(ui.messages) # {}
    THEN LET m == lastContentMessage(ui.messages)
         IN  IF m.senderId = USER
             THEN <<"user said">> \o m.text
             ELSE senderName(cfg.agents, m.senderId) \o <<"said">> \o m.text
    ELSE <<cfg.topic>>

\* A budget test that lets a turn through when the user has just posted.
LimitReached_UnlessUserPosted(ui, cfg) ==
    /\ ui.turnCount >= cfg.maxTurns * Len(cfg.agents)
    /\ ~(ui.messages # <<>> /\ ui.messages[Len(ui.messages)].senderId = USER)

\* The budget test with a strict comparison.
LimitReached_Strict(ui, cfg) == ui.turnCount > cfg.maxTurns * Len(cfg.agents)

\* The turn budget test of processTurn.
LimitReached(ui, cfg) == ui.turnCount >= cfg.maxTurns * Len(cfg.agents)

\* processTurn up to its first await: the limit check, the prompt, the skip
\* guard, and the pacing timer that captures speaker, prompt and roster.
processTurn(ui, cfg) ==
    IF LimitReached(ui, cfg)
    THEN addMessage([ui EXCEPT !.status = COMPLETED], SYSTEM, <<"Conversation Limit Reached.">>)
    ELSE IF Len(ui.messages) = 0 /\ ui.currentSpeakerId # cfg.agents[1].id
    THEN ui
    ELSE [ui EXCEPT !.timer = <<[speaker |-> ui.currentSpeakerId,
                                 prompt |-> promptText(ui, cfg),
                                 agents |-> cfg.agents]>>]

\* A cleanup that leaves the pending timer armed.
Cleanup_Keep(ui) == ui

\* The effect cleanup: clearTimeout of the previous effect's timer.
Cleanup(ui) == [ui EXCEPT !.timer = <<>>]

\* An orchestration effect that does not watch the transcript: a pending turn
\* of the current speaker survives a render.
OrchestrationEffect_TranscriptNotWatched(ui, cfg) ==
    IF ui.timer # <<>> /\ ui.status = ACTIVE /\ ui.currentSpeakerId = ui.timer[1].speaker
    THEN ui
    ELSE LET c == Cleanup(ui)
         IN  IF c.status = ACTIVE /\ c.currentSpeakerId # None
             THEN processTurn(c, cfg)
             ELSE c

\* Main orchestration effect: cleanup of the previous run, then processTurn
\* when the render is ACTIVE with a speaker.
OrchestrationEffect(ui, cfg) ==
    LET c == Cleanup(ui)
    IN  IF c.status = ACTIVE /\ c.currentSpeakerId # None
        THEN processTurn(c, cfg)
        ELSE c

\* buildLocalSummary keeps the last six non-SYSTEM messages.
SummaryTail == 6

RECURSIVE Bullets(_)
Bullets(msgs) ==
    IF msgs = <<>> THEN <<>>
    ELSE <<IF Head(msgs).senderId = USER THEN "User" ELSE Head(msgs).senderId>>
            \o Head(msgs).text \o Bullets(Tail(msgs))

buildLocalSummary(msgs, topic) ==
    LET nonSystem == SelectSeq(msgs, LAMBDA m : m.senderId # SYSTEM)
        lastFew == SubSeq(nonSystem,
                          IF Len(nonSystem) > SummaryTail THEN Len(nonSystem) - SummaryTail + 1 ELSE 1,
                          Len(nonSystem))
    IN  <<"topic", IF topic # "" THEN topic ELSE "unset">>
            \o (IF lastFew # <<>> THEN <<"highlights">> \o Bullets(lastFew)
                ELSE <<"no recent messages">>)

\* A summary effect that never starts a summary.
SummaryEffect_Never(ui, cfg) == ui

\* A summary effect that does not consult the one-shot latch.
SummaryEffect_NoLatch(ui, cfg) ==
    IF ui.status = COMPLETED /\ Len(ui.messages) > 0
    THEN [addMessage(ui, SYSTEM, <<"Summarizing...">>) EXCEPT
            !.hasSummarized = TRUE,
            !.isSummarizing = TRUE,
            !.summaryCalls = @ + 1,
            !.summaries = Append(@, [fallback |-> buildLocalSummary(ui.messages, cfg.topic),
                                       apiKey |-> getEffectiveApiKey(cfg)])]
    ELSE ui

\* Summary effect: once per latch, on a COMPLETED render with a transcript.
\* The awaiting closure keeps the render's transcript only to build the local
\* fallback, which is kept here in its place.
SummaryEffect(ui, cfg) ==
    IF ui.status = COMPLETED /\ ~ui.hasSummarized /\ Len(ui.messages) > 0
    THEN [addMessage(ui, SYSTEM, <<"Summarizing...">>) EXCEPT
            !.hasSummarized = TRUE,
            !.isSummarizing = TRUE,
            !.summaryCalls = @ + 1,
            !.summaries = Append(@, [fallback |-> buildLocalSummary(ui.messages, cfg.topic),
                                       apiKey |-> getEffectiveApiKey(cfg)])]
    ELSE ui

\* The renders that follow one task, run to quiescence.
Render(ui, cfg) == SummaryEffect(OrchestrationEffect(ui, cfg), cfg)

\* Commit a snapshot to the component state.
Commit(ui) ==
    /\ status' = ui.status
    /\ messages' = ui.messages
    /\ turnCount' = ui.turnCount
    /\ currentSpeakerId' = ui.currentSpeakerId
    /\ isSummarizing' = ui.isSummarizing
    /\ hasSummarizedRef' = ui.hasSummarized
    /\ timer' = ui.timer
    /\ summaries' = ui.summaries
    /\ summaryCalls' = ui.summaryCalls

\* Commit the service's module state, dropping unreachable objects.
CommitService(svc, calls) ==
    /\ activeProvider' = svc.activeProvider
    /\ activeModel' = svc.activeModel
    /\ activeApiKey' = svc.activeApiKey
    /\ chatSessions' = svc.chatSessions
    /\ openAISessions' = svc.openAISessions
    /\ heap' = Collect(svc.heap, svc.chatSessions, svc.openAISessions, calls)
    /\ epoch' = svc.epoch

serviceVars == <<activeProvider, activeModel, activeApiKey, chatSessions,
                 openAISessions, heap, epoch>>

----------------------------------------------------------------------------
(* App: initial state *)

\* ConfigurationPanel.handleApiKeyChange: the provider follows the key, the
\* model is kept when the provider's catalog has it.
ApiKeyChanged(cfg, apiKey) ==
    LET detected == detectProviderFromApiKey(apiKey)
        available == PROVIDER_MODEL_OPTIONS(detected)
        nextModel == IF \E i \in 1..Len(available) : available[i] = cfg.model
                     THEN cfg.model ELSE available[1]
    IN  [cfg EXCEPT !.apiKey = apiKey, !.provider = detected, !.model = nextModel]

PresetCount == 2      \* agents of the default preset
InitialAgents == [i \in 1..PresetCount |-> Agent(PresetIds[i])]

\* buildConfigFromPreset(DEFAULT_PRESET_ID, ENV_API_KEY), with the roster and
\* the turn budget scaled to the bounds.
INITIAL_CONFIG ==
    [apiKey |-> ENV_API_KEY,
     provider |-> detectProviderFromApiKey(ENV_API_KEY),
     model |-> PROVIDER_MODEL_OPTIONS(detectProviderFromApiKey(ENV_API_KEY))[1],
     agents |-> InitialAgents,
     topic |-> TopicText,
     maxTurns |-> PresetMaxTurns,
     globalRules |-> RulesText]

\* What a run would keep of the configuration it was initialized with.
Snapshot(cfg) == [maxTurns |-> cfg.maxTurns, agents |-> cfg.agents, topic |-> cfg.topic]
NoSnapshot == [maxTurns |-> 0, agents |-> <<>>, topic |-> ""]

\* The user has typed a credential before the first intent.
Init ==
    /\ \E k \in ApiKeys : config = ApiKeyChanged(INITIAL_CONFIG, k)
    /\ messages = <<>>
    /\ status = IDLE
    /\ turnCount = 0
    /\ currentSpeakerId = None
    /\ isSummarizing = FALSE
    /\ hasSummarizedRef = FALSE
    /\ timer = <<>>
    /\ inflight = <<>>
    /\ summaries = <<>>
    /\ chatSessions = <<>>
    /\ openAISessions = <<>>
    /\ heap = <<>>
    /\ activeProvider = "gemini"
    /\ activeModel = ""
    /\ activeApiKey = <<>>
    /\ epoch = 0
    /\ fresh = 0
    /\ posts = 0
    /\ lastIntent = "none"
    /\ started = FALSE
    /\ succ = 0
    /\ summaryCalls = 0
    /\ unanswered = <<>>
    /\ snapshot = NoSnapshot

----------------------------------------------------------------------------
(* App: user intents *)

StartVisible == status \in {IDLE, COMPLETED, ERROR}     \* ConfigurationPanel footer
StopVisible == ~StartVisible
ResetVisible == status # IDLE
Editable == status # ACTIVE                             \* isRunning disables the inputs

\* A start that keeps the turn counter.
StartReset_KeepTurns(ui) ==
    [ui EXCEPT !.messages = <<>>, !.status = ACTIVE,
               !.hasSummarized = FALSE, !.isSummarizing = FALSE,
               !.summaryCalls = 0]

\* A start that keeps the previous transcript.
StartReset_KeepTranscript(ui) ==
    [ui EXCEPT !.turnCount = 0, !.status = ACTIVE,
               !.hasSummarized = FALSE, !.isSummarizing = FALSE,
               !.summaryCalls = 0]

\* handleStart: the state after "Reset state", before initializeChats.
StartReset(ui) ==
    [ui EXCEPT !.messages = <<>>, !.turnCount = 0, !.status = ACTIVE,
               !.hasSummarized = FALSE, !.isSummarizing = FALSE,
               !.summaryCalls = 0]

StartConfig(cfg, key) ==
    [cfg EXCEPT !.apiKey = key,
                !.provider = detectProviderFromApiKey(key),
                !.model = PROVIDER_MODEL_OPTIONS(detectProviderFromApiKey(key))[1]]

\* A keyless start that moves to ERROR.
handleStartNoKey_ToError(maxPosts) ==
    /\ StartVisible
    /\ config.topic # ""
    /\ getEffectiveApiKey(config) = <<>>
    /\ posts < maxPosts
    /\ Commit(Render([addMessage(Ui, SYSTEM, <<"API Key is missing. Please check the configuration.">>)
                        EXCEPT !.status = ERROR], config))
    /\ lastIntent' = "startNoKey"
    /\ started' = FALSE
    /\ UNCHANGED <<config, inflight, serviceVars, fresh, succ>>
    /\ posts' = posts + 1
    /\ unanswered' = <<>>
    /\ snapshot' = snapshot

\* handleStart, credential missing.
handleStartNoKey(maxPosts) ==
    /\ StartVisible
    /\ config.topic # ""
    /\ getEffectiveApiKey(config) = <<>>
    /\ posts < maxPosts
    /\ Commit(Render(addMessage(Ui, SYSTEM, <<"API Key is missing. Please check the configuration.">>), config))
    /\ lastIntent' = "startNoKey"
    /\ started' = FALSE
    /\ UNCHANGED <<config, inflight, serviceVars, fresh, succ>>
    /\ posts' = posts + 1
    /\ unanswered' = <<>>
    /\ snapshot' = snapshot

\* handleStart, initializeChats succeeds.
handleStart(maxEpoch) ==
    /\ StartVisible
    /\ config.topic # ""
    /\ getEffectiveApiKey(config) # <<>>
    /\ epoch < maxEpoch
    /\ LET key == getEffectiveApiKey(config)
           cfg == StartConfig(config, key)
           svc == InitSessions(Service, key, cfg.model, config.agents, config.globalRules)
           ui == [addMessage(StartReset(Ui), SYSTEM, <<"Discussion Started", config.topic>>)
                    EXCEPT !.currentSpeakerId =
                        IF Len(config.agents) > 0 THEN config.agents[1].id ELSE @]
       IN  /\ config' = cfg
           /\ CommitService(svc, inflight)
           /\ Commit(Render(ui, cfg))
    /\ lastIntent' = "start"
    /\ started' = TRUE
    /\ succ' = 0
    /\ UNCHANGED <<posts, inflight, fresh>>
    /\ unanswered' = <<>>
    /\ snapshot' = Snapshot(config)

\* handleStart, initializeChats throws (the Gemini SDK rejects the client or
\* the chat creation).
handleStartInitFails(maxEpoch) ==
    /\ StartVisible
    /\ config.topic # ""
    /\ getEffectiveApiKey(config) # <<>>
    /\ detectProviderFromApiKey(getEffectiveApiKey(config)) = "gemini"
    /\ epoch < maxEpoch
    /\ LET key == getEffectiveApiKey(config)
           cfg == StartConfig(config, key)
           svc == InitSessionsThrows(Service, key, cfg.model)
           ui == [addMessage(StartReset(Ui), SYSTEM, <<"Agent initialization failed", "sdk error">>)
                    EXCEPT !.status = ERROR]
       IN  /\ config' = cfg
           /\ CommitService(svc, inflight)
           /\ Commit(Render(ui, cfg))
    /\ lastIntent' = "startInitFails"
    /\ started' = FALSE
    /\ succ' = 0
    /\ UNCHANGED <<posts, inflight, fresh>>
    /\ unanswered' = <<>>
    /\ snapshot' = snapshot

handleStop ==
    /\ StopVisible
    /\ Commit(Render([addMessage(Ui, SYSTEM, <<"Conversation ended by the user.">>)
                        EXCEPT !.status = COMPLETED, !.currentSpeakerId = None], config))
    /\ lastIntent' = "stop"
    /\ UNCHANGED <<posts, config, inflight, serviceVars, fresh, started, succ>>
    /\ unanswered' = <<>>
    /\ snapshot' = snapshot

\* A reset that keeps the turn counter and the speaker.
resetConversationState_KeepTurns(ui) ==
    [ui EXCEPT !.status = IDLE, !.messages = <<>>, !.hasSummarized = FALSE,
               !.isSummarizing = FALSE, !.summaryCalls = 0]

resetConversationState(ui) ==
    [ui EXCEPT !.status = IDLE, !.messages = <<>>, !.turnCount = 0,
               !.currentSpeakerId = None, !.hasSummarized = FALSE,
               !.isSummarizing = FALSE, !.summaryCalls = 0]

handleReset ==
    /\ ResetVisible
    /\ Commit(Render(resetConversationState(Ui), config))
    /\ lastIntent' = "reset"
    /\ started' = FALSE
    /\ succ' = 0
    /\ UNCHANGED <<posts, config, inflight, serviceVars, fresh>>
    /\ unanswered' = <<>>
    /\ snapshot' = snapshot

\* A reactivation that always returns to the head of the roster.
FirstSpeakerIfNone_Always(ui, cfg) == [ui EXCEPT !.currentSpeakerId = cfg.agents[1].id]

\* handleUserSubmit: "Set first speaker if none".
FirstSpeakerIfNone(ui, cfg) ==
    IF ui.currentSpeakerId = None /\ Len(cfg.agents) > 0
    THEN [ui EXCEPT !.currentSpeakerId = cfg.agents[1].id]
    ELSE ui

\* handleUserSubmit while ACTIVE, PAUSED or COMPLETED.
handleUserSubmit(text, maxPosts) ==
    /\ status \in {ACTIVE, PAUSED, COMPLETED}
    /\ posts < maxPosts
    /\ LET posted == addMessage(Ui, USER, text)
           ui == IF status = ACTIVE THEN posted
                 ELSE FirstSpeakerIfNone([posted EXCEPT !.status = ACTIVE], config)
       IN  Commit(Render(ui, config))
    /\ lastIntent' = "userSubmit"
    /\ UNCHANGED <<config, inflight, serviceVars, fresh, started, succ>>
    /\ posts' = posts + 1
    /\ unanswered' = IF status = ACTIVE THEN <<text>> ELSE <<>>
    /\ snapshot' = snapshot

\* handleUserSubmit while IDLE or ERROR: the implicit start.
handleUserSubmitInit(text, maxEpoch, maxPosts) ==
    /\ status \in {IDLE, ERROR}
    /\ getEffectiveApiKey(config) # <<>>
    /\ posts < maxPosts
    /\ epoch < maxEpoch
    /\ LET key == getEffectiveApiKey(config)
           provider == detectProviderFromApiKey(key)
           model == IF config.model # "" THEN config.model
                    ELSE PROVIDER_MODEL_OPTIONS(provider)[1]
           cfg == [config EXCEPT !.apiKey = key, !.provider = provider, !.model = model]
           svc == InitSessions(Service, key, model, config.agents, config.globalRules)
           ui == FirstSpeakerIfNone([addMessage(Ui, USER, text) EXCEPT !.status = ACTIVE], config)
       IN  /\ config' = cfg
           /\ CommitService(svc, inflight)
           /\ Commit(Render(ui, cfg))
    /\ lastIntent' = "userSubmit"
    /\ UNCHANGED <<inflight, fresh, started, succ>>
    /\ posts' = posts + 1
    /\ unanswered' = IF status = ACTIVE THEN <<text>> ELSE <<>>
    /\ snapshot' = Snapshot(config)

\* handleUserSubmit while IDLE or ERROR, initializeChats throws.
handleUserSubmitInitFails(text, maxEpoch, maxPosts) ==
    /\ status \in {IDLE, ERROR}
    /\ getEffectiveApiKey(config) # <<>>
    /\ detectProviderFromApiKey(getEffectiveApiKey(config)) = "gemini"
    /\ posts < maxPosts
    /\ epoch < maxEpoch
    /\ LET key == getEffectiveApiKey(config)
           model == IF config.model # "" THEN config.model
                    ELSE PROVIDER_MODEL_OPTIONS(detectProviderFromApiKey(key))[1]
           svc == InitSessionsThrows(Service, key, model)
           ui == addMessage(addMessage(Ui, USER, text), SYSTEM,
                            <<"Failed to initialize chat.", "sdk error">>)
       IN  /\ CommitService(svc, inflight)
           /\ Commit(Render(ui, config))
    /\ lastIntent' = "userSubmit"
    /\ UNCHANGED <<config, inflight, fresh, started, succ>>
    /\ posts' = posts + 1
    /\ unanswered' = IF status = ACTIVE THEN <<text>> ELSE <<>>
    /\ snapshot' = snapshot

\* handleUserSubmit while IDLE or ERROR, credential missing.
handleUserSubmitNoKey(text, maxPosts) ==
    /\ status \in {IDLE, ERROR}
    /\ getEffectiveApiKey(config) = <<>>
    /\ posts < maxPosts
    /\ Commit(Render(addMessage(addMessage(Ui, USER, text), SYSTEM,
                                <<"Please enter an API Key to start.">>), config))
    /\ lastIntent' = "userSubmit"
    /\ UNCHANGED <<config, inflight, serviceVars, fresh, started, succ>>
    /\ posts' = posts + 1
    /\ unanswered' = IF status = ACTIVE THEN <<text>> ELSE <<>>
    /\ snapshot' = snapshot

----------------------------------------------------------------------------
(* ConfigurationPanel: edits, enabled while the conversation is not ACTIVE *)

\* A config change re-runs the orchestration effect (config.maxTurns and
\* config.agents are dependencies); the summary effect does not depend on it.
EditMaxTurns(m) ==
    /\ Editable
    /\ m # config.maxTurns
    /\ config' = [config EXCEPT !.maxTurns = m]
    /\ Commit(OrchestrationEffect(Ui, config'))
    /\ UNCHANGED <<posts, inflight, serviceVars, fresh, lastIntent, started, succ>>
    /\ unanswered' = unanswered
    /\ snapshot' = snapshot

handleApiKeyChange(apiKey) ==
    /\ Editable
    /\ apiKey # config.apiKey
    /\ config' = ApiKeyChanged(config, apiKey)
    /\ UNCHANGED <<posts, messages, status, turnCount, currentSpeakerId, isSummarizing,
                   hasSummarizedRef, timer, summaries, summaryCalls, inflight,
                   serviceVars, fresh, lastIntent, started, succ>>
    /\ unanswered' = unanswered
    /\ snapshot' = snapshot

handleAgentCountChange(count) ==
    /\ Editable
    /\ count >= 2 /\ count <= MaxAgents
    /\ count # Len(config.agents)
    /\ IF count > Len(config.agents)
       THEN /\ fresh + (count - Len(config.agents)) <= MaxFresh
            /\ config' = [config EXCEPT !.agents =
                            @ \o [i \in 1..(count - Len(@)) |-> Agent(MintedIds[fresh + i])]]
            /\ fresh' = fresh + (count - Len(config.agents))
       ELSE /\ config' = [config EXCEPT !.agents = SubSeq(@, 1, count)]
            /\ fresh' = fresh
    /\ Commit(OrchestrationEffect(Ui, config'))
    /\ UNCHANGED <<posts, inflight, serviceVars, lastIntent, started, succ>>
    /\ unanswered' = unanswered
    /\ snapshot' = snapshot

----------------------------------------------------------------------------
(* processTurn after the pacing delay; generateResponse *)

\* The session generateResponse finds for the agent under the active
\* provider: the set holding its reference, or {} when there is none.
SessionOf(agentId) ==
    IF activeProvider = "gemini"
    THEN IF agentId \in DOMAIN chatSessions THEN {chatSessions[agentId]} ELSE {}
    ELSE IF agentId \in DOMAIN openAISessions THEN {openAISessions[agentId]} ELSE {}

\* A catch block that reports the error and leaves the status alone.
TurnFailed_NoStatus(ui, reason) == addMessage(ui, SYSTEM, <<"LLM API error", reason>>)

\* The catch block of processTurn.
TurnFailed(ui, reason) ==
    [addMessage(ui, SYSTEM, <<"LLM API error", reason>>) EXCEPT !.status = ERROR]

\* The pacing timer fires and generateResponse is called; the request is
\* sent and processTurn awaits the provider.
TimerFires ==
    /\ timer # <<>>
    /\ SessionOf(timer[1].speaker) # {}
    /\ Len(inflight) < MaxInflight
    /\ inflight' = Append(inflight, [speaker |-> timer[1].speaker,
                                     prompt |-> timer[1].prompt,
                                     agents |-> timer[1].agents,
                                     provider |-> activeProvider,
                                     sess |-> SessionOf(timer[1].speaker)])
    /\ timer' = <<>>
    /\ UNCHANGED <<posts, config, messages, status, turnCount, currentSpeakerId,
                   isSummarizing, hasSummarizedRef, summaries, summaryCalls,
                   serviceVars, fresh, lastIntent, started, succ>>
    /\ unanswered' = <<>>
    /\ snapshot' = snapshot

\* The pacing timer fires and generateResponse throws at once: no session
\* for the agent.
TimerFiresNoSession ==
    /\ timer # <<>>
    /\ SessionOf(timer[1].speaker) = {}
    /\ Commit(Render(TurnFailed(Cleanup(Ui), "Chat Session not initialized"), config))
    /\ UNCHANGED <<posts, config, inflight, serviceVars, fresh, lastIntent, started, succ>>
    /\ unanswered' = <<>>
    /\ snapshot' = snapshot

RemoveAt(seq, i) == SubSeq(seq, 1, i - 1) \o SubSeq(seq, i + 1, Len(seq))

\* result.text || "[No response generated]"
Answer(resp) == IF resp = <<>> THEN NoResponse ELSE resp

Exchange(prompt, answer) ==
    <<[role |-> "user", content |-> prompt], [role |-> "assistant", content |-> answer]>>

\* The service state after a call returns successfully.  A generic provider
\* pushes the exchange on the array the call read at its start and stores
\* that array under the agent; a Gemini Chat records the exchange itself.
SessionAfter(svc, call, answer) ==
    LET ref == CHOOSE r \in call.sess : TRUE
        grown == [svc.heap EXCEPT ![ref] = @ \o Exchange(call.prompt, answer)]
    IN  IF call.provider = "gemini"
        THEN [svc EXCEPT !.heap = grown]
        ELSE [svc EXCEPT !.heap = grown,
                         !.openAISessions =
                             [a \in (DOMAIN @) \cup {call.speaker} |->
                                 IF a = call.speaker THEN ref ELSE @[a]]]

\* A selection that always returns to the head of the roster.
NextSpeaker_Head(agents, id) == agents[1].id

\* Round robin over the roster the turn captured; findIndex gives -1 for an
\* id that is not in it, so the next index is 0.
NextSpeaker(agents, id) ==
    LET currentIndex == IF \E i \in 1..Len(agents) : agents[i].id = id
                        THEN AgentById(agents, id) - 1 ELSE -1
        nextIndex == (currentIndex + 1) % Len(agents)
    IN  agents[nextIndex + 1].id

\* A continuation that advances the speaker and the counter without posting
\* the reply.
TurnSucceeded_SpeakerOnly(ui, call, answer) ==
    [ui EXCEPT
        !.turnCount = @ + 1,
        !.currentSpeakerId = NextSpeaker(call.agents, call.speaker)]

\* A continuation that writes the reply over the last entry of the transcript.
TurnSucceeded_ReplaceLast(ui, call, answer) ==
    [ui EXCEPT
        !.messages = IF @ = <<>> THEN <<Message(call.speaker, answer)>>
                     ELSE [@ EXCEPT ![Len(@)] = Message(call.speaker, answer)],
        !.turnCount = @ + 1,
        !.currentSpeakerId = NextSpeaker(call.agents, call.speaker)]

\* The continuation of processTurn after a successful generateResponse.
TurnSucceeded(ui, call, answer) ==
    [addMessage(ui, call.speaker, answer) EXCEPT
        !.turnCount = @ + 1,
        !.currentSpeakerId = NextSpeaker(call.agents, call.speaker)]

GenerateReturns(i, resp) ==
    /\ i \in 1..Len(inflight)
    /\ LET call == inflight[i]
           rest == RemoveAt(inflight, i)
       IN  /\ inflight' = rest
           /\ CommitService(SessionAfter(Service, call, Answer(resp)), rest)
           /\ Commit(Render(TurnSucceeded(Ui, call, Answer(resp)), config))
    /\ succ' = succ + 1
    /\ UNCHANGED <<posts, config, fresh, lastIntent, started>>
    /\ unanswered' = unanswered
    /\ snapshot' = snapshot

\* generateResponse rejects: transport failure, non-success status or a
\* malformed body.  The session is not touched.
GenerateThrows(i) ==
    /\ i \in 1..Len(inflight)
    /\ inflight' = RemoveAt(inflight, i)
    /\ CommitService(Service, RemoveAt(inflight, i))
    /\ Commit(Render(TurnFailed(Ui, "provider error"), config))
    /\ UNCHANGED <<posts, config, fresh, lastIntent, started, succ>>
    /\ unanswered' = unanswered
    /\ snapshot' = snapshot

----------------------------------------------------------------------------
(* Summary *)

\* generateMeetingSummary resolves.
SummaryReturns(i) ==
    /\ i \in 1..Len(summaries)
    /\ summaries[i].apiKey # <<>>
    /\ Commit(Render([addMessage(Ui, SUMMARY_AGENT, <<"summary">>) EXCEPT
                        !.isSummarizing = FALSE,
                        !.summaries = RemoveAt(@, i)], config))
    /\ UNCHANGED <<posts, config, inflight, serviceVars, fresh, lastIntent, started, succ>>
    /\ unanswered' = unanswered
    /\ snapshot' = snapshot

\* A summary failure that is surfaced as a hard error.
SummaryThrows_ToError(i) ==
    /\ i \in 1..Len(summaries)
    /\ Commit(Render([addMessage(Ui, SYSTEM, <<"summary failed">>)
                        EXCEPT !.status = ERROR,
                               !.isSummarizing = FALSE,
                               !.summaries = RemoveAt(@, i)], config))
    /\ UNCHANGED <<posts, config, inflight, serviceVars, fresh, lastIntent, started, succ>>
    /\ unanswered' = unanswered
    /\ snapshot' = snapshot

\* generateMeetingSummary rejects (no credential, or the provider fails):
\* the local fallback is posted.
SummaryThrows(i) ==
    /\ i \in 1..Len(summaries)
    /\ LET call == summaries[i]
           reason == IF call.apiKey = <<>> THEN "API Key is missing for summary generation."
                     ELSE "provider error"
       IN  Commit(Render([addMessage(Ui, SUMMARY_AGENT,
                                     <<"summary failed", reason, "local summary">>
                                        \o call.fallback)
                            EXCEPT !.isSummarizing = FALSE,
                                   !.summaries = RemoveAt(@, i)], config))
    /\ UNCHANGED <<posts, config, inflight, serviceVars, fresh, lastIntent, started, succ>>
    /\ unanswered' = unanswered
    /\ snapshot' = snapshot

----------------------------------------------------------------------------

\* The intents and continuations of the conversation, with at most maxEpoch
\* session initializations and maxPosts user posts in a behaviour.
Conversation(maxEpoch, maxPosts) ==
    \/ handleStart(maxEpoch)
    \/ handleStartNoKey(maxPosts)
    \/ handleStartInitFails(maxEpoch)
    \/ handleStop
    \/ handleReset
    \/ \E text \in UserTexts : handleUserSubmit(text, maxPosts)
    \/ \E text \in UserTexts : handleUserSubmitInit(text, maxEpoch, maxPosts)
    \/ \E text \in UserTexts : handleUserSubmitInitFails(text, maxEpoch, maxPosts)
    \/ \E text \in UserTexts : handleUserSubmitNoKey(text, maxPosts)
    \/ TimerFires
    \/ \E i \in 1..MaxInflight, resp \in Responses : GenerateReturns(i, resp)
    \/ \E i \in 1..MaxInflight : GenerateThrows(i)
    \/ \E i \in 1..MaxInflight : SummaryReturns(i)
    \/ \E i \in 1..MaxInflight : SummaryThrows(i)

Configuration ==
    \/ \E m \in 1..MaxTurnsCfg : EditMaxTurns(m)
    \/ \E k \in ApiKeys : handleApiKeyChange(k)
    \/ \E count \in 2..MaxAgents : handleAgentCountChange(count)

Next == Conversation(MaxEpoch, MaxPosts)

\* The conversation under a configuration fixed before the first intent.
Spec == Init /\ [][Next]_vars

NextBudget == Conversation(OneRun, MaxPosts) \/ \E m \in 1..MaxTurnsCfg : EditMaxTurns(m)

\* One initialization, with the Max Turns input in use while not ACTIVE.
SpecBudget == Init /\ [][NextBudget]_vars

NextConfig == Conversation(OneRun, MaxPosts) \/ Configuration \/ TimerFiresNoSession

\* One initialization, with the whole configuration panel in use while not ACTIVE.
SpecConfig == Init /\ [][NextConfig]_vars

NextKey == Conversation(OneRun, MaxPosts) \/ \E k \in ApiKeys : handleApiKeyChange(k)

\* One initialization, with the API key input in use while not ACTIVE.
SpecKey == Init /\ [][NextKey]_vars

NextResolve == \E k \in Credentials : handleApiKeyChange(k)

\* The API key input alone: each edit applies the detection to what was typed.
SpecResolve == Init /\ [][NextResolve]_vars

NextRepeat ==
    \/ handleStart(OneRun)
    \/ handleStop
    \/ handleReset
    \/ \E text \in UserTexts : handleUserSubmit(text, MorePosts)
    \/ \E text \in UserTexts : handleUserSubmitInit(text, OneRun, MorePosts)
    \/ \E m \in 1..MaxTurnsCfg : EditMaxTurns(m)
    \/ TimerFires
    \/ \E i \in 1..MaxInflight, resp \in Responses : GenerateReturns(i, resp)
    \/ \E i \in 1..MaxInflight : GenerateThrows(i)
    \/ \E i \in 1..MaxInflight : SummaryReturns(i)

\* One initialization (by start or by the implicit start) with repeated user
\* posts, and the Max Turns input in use while not ACTIVE; the summary calls
\* succeed.
SpecRepeat == Init /\ [][NextRepeat]_vars

NextRoster ==
    \/ Conversation(OneRun, MaxPosts)
    \/ \E count \in 2..MaxAgents : handleAgentCountChange(count)
    \/ TimerFiresNoSession

\* One initialization, with the agent-count slider in use while not ACTIVE.
SpecRoster == Init /\ [][NextRoster]_vars

----------------------------------------------------------------------------
(* geminiService.ts driven directly, with the roster of the configuration *)

uiVars == <<config, messages, status, turnCount, currentSpeakerId, isSummarizing,
            hasSummarizedRef, timer, summaries, summaryCalls, fresh, posts,
            started, succ, unanswered, snapshot>>

\* initializeChats(apiKey, config.model, config.agents, config.globalRules)
initializeChatsCall(apiKey) ==
    /\ epoch < MaxEpoch
    /\ CommitService(initializeChats(Service, apiKey, config.model, config.agents,
                                     config.globalRules), inflight)
    /\ lastIntent' = IF Trim(apiKey) = <<>> THEN "initializeRejected" ELSE "initialize"
    /\ UNCHANGED <<uiVars, inflight>>

\* generateResponse(agentId, prompt) up to its await.
generateResponseCall(agentId) ==
    /\ SessionOf(agentId) # {}
    /\ Len(inflight) < MaxInflight
    /\ \A r \in SessionOf(agentId) : Len(heap[r]) < MaxMemory
    /\ inflight' = Append(inflight, [speaker |-> agentId,
                                     prompt |-> <<TopicText>>,
                                     agents |-> config.agents,
                                     provider |-> activeProvider,
                                     sess |-> SessionOf(agentId)])
    /\ lastIntent' = "generate"
    /\ UNCHANGED <<uiVars, serviceVars>>

\* generateResponse for an agent without a session: throws before any request.
generateResponseNoSession(agentId) ==
    /\ SessionOf(agentId) = {}
    /\ lastIntent' = "generateFailed"
    /\ UNCHANGED <<uiVars, serviceVars, inflight>>

generateResponseResolves(i, resp) ==
    /\ i \in 1..Len(inflight)
    /\ inflight' = RemoveAt(inflight, i)
    /\ CommitService(SessionAfter(Service, inflight[i], Answer(resp)), RemoveAt(inflight, i))
    /\ lastIntent' = "generateReturned"
    /\ UNCHANGED uiVars

generateResponseRejects(i) ==
    /\ i \in 1..Len(inflight)
    /\ inflight' = RemoveAt(inflight, i)
    /\ CommitService(Service, RemoveAt(inflight, i))
    /\ lastIntent' = "generateFailed"
    /\ UNCHANGED uiVars

NextService ==
    \/ \E k \in ApiKeys : initializeChatsCall(k)
    \/ \E a \in AgentIdsOf(config.agents) : generateResponseCall(a)
    \/ \E a \in AgentIdsOf(config.agents) : generateResponseNoSession(a)
    \/ \E i \in 1..MaxInflight, resp \in Responses : generateResponseResolves(i, resp)
    \/ \E i \in 1..MaxInflight : generateResponseRejects(i)

SpecService == Init /\ [][NextService]_vars

\* One conversation in which every generate call succeeds and the user
\* neither stops, resets nor starts again; Max Turns is set while not ACTIVE.
NextLive ==
    \/ handleStart(OneRun)
    \/ \E text \in UserTexts : handleUserSubmit(text, MaxPosts)
    \/ \E m \in 1..MaxTurnsCfg : EditMaxTurns(m)
    \/ TimerFires
    \/ \E i \in 1..MaxInflight, resp \in Responses : GenerateReturns(i, resp)
    \/ \E i \in 1..MaxInflight : SummaryReturns(i)
    \/ \E i \in 1..MaxInflight : SummaryThrows(i)

\* Timers fire and awaited calls settle.
Fairness ==
    /\ WF_vars(TimerFires)
    /\ WF_vars(\E i \in 1..MaxInflight, resp \in Responses : GenerateReturns(i, resp))
    /\ WF_vars(\E i \in 1..MaxInflight : SummaryReturns(i) \/ SummaryThrows(i))

SpecLive == Init /\ [][NextLive]_vars /\ Fairness

----------------------------------------------------------------------------
(* Properties *)

Budget == config.maxTurns * Len(config.agents)

LimitMessage == Message(SYSTEM, <<"Conversation Limit Reached.">>)
StopMessage == Message(SYSTEM, <<"Conversation ended by the user.">>)

\* A generateResponse call is issued in this step.
CallStarted == Len(inflight') > Len(inflight)

\* A generateResponse call completes in this step, successfully or not.
CallCompleted == Len(inflight') < Len(inflight)

\* The messages this step appended.
Appended == {k \in 1..Len(messages') : k > Len(messages)}

\* The step appended a message written by an agent of the roster.
AgentMessageAppended ==
    \E k \in Appended : messages'[k].senderId \notin {SYSTEM, USER, SUMMARY_AGENT}

\* The outstanding calls issued against the sessions of the latest
\* initializeChats, that is, within the conversation now on screen.
CallsOfCurrentSessions ==
    {i \in 1..Len(inflight) : \A r \in inflight[i].sess : r.e = epoch}

\* C1. At most one generate call of the conversation is outstanding at any
\* time, also when a userSubmit changes the transcript while a call is in
\* flight and the turn step re-runs for the same speaker.
C1_AtMostOneOutstanding == Cardinality(CallsOfCurrentSessions) <= 1

\* C2. A generation completion arriving after reset, before any start or
\* userSubmit, is discarded: the transcript stays empty, turnCount stays 0,
\* currentSpeakerId stays none and status stays IDLE.
C2_CompletionAfterResetDiscarded ==
    [][(lastIntent = "reset" /\ lastIntent' = "reset" /\ CallCompleted)
         => (messages' = <<>> /\ turnCount' = 0 /\ currentSpeakerId' = None
             /\ status' = IDLE)]_vars

\* C3 as stated. Between a successful start and the next start or reset,
\* after N successful turns turnCount is N and the speaker selected for the
\* next turn is agents[N mod agentCount].
C3_SpeakerByTurnCount ==
    (started /\ Len(config.agents) >= 2)
        => /\ turnCount = succ
           /\ (status = ACTIVE /\ currentSpeakerId # None)
                 => currentSpeakerId = config.agents[(succ % Len(config.agents)) + 1].id

\* The agent after id in the roster, wrapping around; the head of the roster
\* for an id that is not in it.
SuccessorIn(agents, id) ==
    IF \E k \in 1..Len(agents) : agents[k].id = id
    THEN LET k == CHOOSE j \in 1..Len(agents) : agents[j].id = id
         IN  IF k = Len(agents) THEN agents[1].id ELSE agents[k + 1].id
    ELSE agents[1].id

\* C3, amended. turnCount equals the number of successful turns since the
\* last start or reset; each successful turn appends the reply under its
\* speaker and selects the successor of that speaker in the roster the turn
\* captured; a userSubmit that finds no speaker (after stop) selects the
\* first agent, whatever turnCount is.
C3_TurnsAdvanceRoundRobin ==
    /\ [](turnCount = succ)
    /\ [][(succ' = succ + 1)
            => \E i \in 1..Len(inflight) :
                 /\ inflight' = RemoveAt(inflight, i)
                 /\ turnCount' = turnCount + 1
                 /\ Len(messages') > Len(messages)
                 /\ messages'[Len(messages) + 1].senderId = inflight[i].speaker
                 /\ currentSpeakerId' = SuccessorIn(inflight[i].agents, inflight[i].speaker)]_vars
    /\ [][(posts' = posts + 1 /\ lastIntent' = "userSubmit" /\ currentSpeakerId = None
           /\ status' = ACTIVE)
            => currentSpeakerId' = config.agents[1].id]_vars

\* After one successful turn and a stop, a userSubmit reactivated the
\* conversation with the first agent as speaker.
C3_Witness ==
    /\ started /\ succ = 1 /\ turnCount = 1
    /\ status = ACTIVE
    /\ lastIntent = "userSubmit"
    /\ currentSpeakerId = config.agents[1].id
    /\ \E k \in 1..Len(messages) : messages[k] = StopMessage

\* The turn step announced the limit in this step.
LimitFired == \E k \in Appended : messages'[k] = LimitMessage

C5_FailureReported ==
    [][(CallCompleted /\ succ' = succ)
         => /\ Len(messages') = Len(messages) + 1
            /\ SubSeq(messages', 1, Len(messages)) = messages
            /\ messages'[Len(messages')].senderId = SYSTEM
            /\ messages'[Len(messages')].text[1] = "LLM API error"
            /\ turnCount' = turnCount
            /\ currentSpeakerId' = currentSpeakerId
            /\ status' = ERROR]_vars

\* A turn failed after an earlier one succeeded: the error is the last
\* message and the speaker is still selected.
C5_Witness ==
    /\ status = ERROR
    /\ messages # <<>>
    /\ messages[Len(messages)].senderId = SYSTEM
    /\ messages[Len(messages)].text[1] = "LLM API error"
    /\ currentSpeakerId # None
    /\ turnCount = 1

\* C6. After initialize, every agent's session is the one that initialize
\* created: a generate call in flight when initialize ran never replaces the
\* new session of its agent.
C6_SessionsAreFresh ==
    /\ \A a \in DOMAIN openAISessions : openAISessions[a].e = epoch
    /\ \A a \in DOMAIN chatSessions : chatSessions[a].e = epoch

\* C7. Immediately after a successful start, from any state, the transcript
\* is exactly the SYSTEM announcement of the topic, turnCount is 0, status is
\* ACTIVE and currentSpeakerId is the first configured agent.
C7_StartIsCanonical ==
    [][(lastIntent' = "start" /\ epoch' = epoch + 1)
         => /\ messages' = <<Message(SYSTEM, <<"Discussion Started", config'.topic>>)>>
            /\ turnCount' = 0
            /\ status' = ACTIVE
            /\ currentSpeakerId' = config'.agents[1].id]_vars

\* A second start has just run, while a call of the earlier conversation is
\* still outstanding.
C7_Witness ==
    /\ lastIntent = "start"
    /\ epoch = 2
    /\ Len(messages) = 1
    /\ timer # <<>>
    /\ inflight # <<>>

\* C8. Between one start and the next start or reset, summary generation is
\* invoked at most once, however often status enters COMPLETED.
C8_SummaryOnce == summaryCalls <= 1

\* The conversation was stopped, reactivated by a userSubmit and completed a
\* second time, with one summary invocation.
C8_Witness ==
    /\ status = COMPLETED
    /\ summaryCalls = 1
    /\ \E i, j \in 1..Len(messages) :
         /\ i < j
         /\ messages[i] = StopMessage
         /\ messages[j].senderId = USER
         /\ \E k \in (j + 1)..Len(messages) : messages[k] \in {StopMessage, LimitMessage}

\* C9. A generate call is started only when, at the moment of the call,
\* status is ACTIVE, currentSpeakerId is set (and is the agent called) and
\* turnCount < maxTurns * agentCount; so none starts after stop or after a
\* failed turn until a start or userSubmit makes the status ACTIVE again.
C9_CallOnlyWhenActive ==
    [][CallStarted
         => /\ status = ACTIVE
            /\ currentSpeakerId # None
            /\ inflight'[Len(inflight')].speaker = currentSpeakerId
            /\ turnCount < Budget]_vars

\* A call is outstanding in a conversation the user reactivated after a
\* failed turn.
C9_Witness ==
    /\ status = ACTIVE
    /\ inflight # <<>>
    /\ lastIntent = "userSubmit"
    /\ \E k \in 1..Len(messages) : messages[k].text[1] = "LLM API error"

\* C10. After stop, until the next userSubmit or start, currentSpeakerId
\* remains none and no turn is taken: a completion of a call that was in
\* flight at the stop appends no agent message and leaves turnCount alone.
C10_NoTurnAfterStop ==
    [][(lastIntent = "stop" /\ lastIntent' = "stop" /\ CallCompleted)
         => (currentSpeakerId' = None /\ turnCount' = turnCount
             /\ ~AgentMessageAppended)]_vars

\* C11. When userSubmit is issued while status is ACTIVE, the next generate
\* call started after the submission receives a prompt derived from that USER
\* message, also when another call was in flight at the submission.
C11_NextPromptFromUserPost ==
    [][(CallStarted /\ unanswered # <<>>)
         => inflight'[Len(inflight')].prompt = <<"user said">> \o unanswered[1]]_vars

SummaryPosted == \E k \in 1..Len(messages) : messages[k].senderId = SUMMARY_AGENT

\* C12. If start succeeds, every generate call succeeds and the user issues
\* no stop, reset or start, the conversation eventually reaches COMPLETED
\* with turnCount = maxTurns * agentCount, and a message from the SUMMARY
\* sender is eventually in the transcript.
C12_CompletesAndSummarizes ==
    /\ (lastIntent = "start" /\ status = ACTIVE /\ turnCount = 0)
          ~> (status = COMPLETED /\ turnCount = Budget)
    /\ (status = COMPLETED /\ turnCount = Budget) ~> SummaryPosted

\* The budget was spent, the conversation completed and the summary arrived.
C12_Witness ==
    /\ started
    /\ status = COMPLETED
    /\ turnCount = Budget
    /\ messages[Len(messages)].senderId = SUMMARY_AGENT
    /\ \E k \in 1..Len(messages) : messages[k] = LimitMessage

\* C13. When session initialization fails during start, a SYSTEM error
\* message is emitted, status becomes ERROR, and turnCount keeps the value it
\* had before start was issued.
C13_FailedStartKeepsTurnCount ==
    [][(lastIntent' = "startInitFails" /\ epoch' = epoch + 1)
         => /\ messages' # <<>>
            /\ messages'[Len(messages')].senderId = SYSTEM
            /\ status' = ERROR
            /\ turnCount' = turnCount]_vars

KeyMissingMessage ==
    Message(SYSTEM, <<"API Key is missing. Please check the configuration.">>)

\* handleStart took its credential-missing branch in this step.
KeylessStart == lastIntent' = "startNoKey" /\ posts' = posts + 1

\* C14 as stated. A start with an empty credential, from IDLE, COMPLETED or
\* ERROR, results in status ERROR or IDLE, appends exactly one SYSTEM
\* configuration-error message and creates or replaces no session.
C14_KeylessStartErrorOrIdle ==
    [][KeylessStart
         => /\ status' \in {ERROR, IDLE}
            /\ messages' = Append(messages, KeyMissingMessage)
            /\ serviceVars' = serviceVars]_vars

\* C14, amended. A start with an empty credential leaves the status as it
\* was (IDLE, COMPLETED or ERROR), appends exactly one SYSTEM
\* configuration-error message, and changes neither the session maps nor the
\* provider/model/credential binding.
C14_KeylessStartKeepsStatus ==
    [][KeylessStart
         => /\ status \in {IDLE, COMPLETED, ERROR}
            /\ status' = status
            /\ messages' = Append(messages, KeyMissingMessage)
            /\ turnCount' = turnCount
            /\ currentSpeakerId' = currentSpeakerId
            /\ serviceVars' = serviceVars]_vars

\* A keyless start was attempted on a completed conversation whose sessions
\* exist: the status is still COMPLETED.
C14_Witness ==
    /\ lastIntent = "startNoKey"
    /\ status = COMPLETED
    /\ messages[Len(messages)] = KeyMissingMessage
    /\ epoch = 1

\* handleUserSubmit initialized the sessions in this step (implicit start).
ImplicitStart ==
    /\ lastIntent' = "userSubmit"
    /\ epoch' = epoch + 1
    /\ \A k \in Appended : messages'[k].text[1] # "Failed to initialize chat."

\* The session map of the active provider holds, for exactly the agents of
\* the roster, the session the latest initializeChats created, with nothing
\* but the persona in it; the other map is empty.
FreshSessionsFor(agents) ==
    LET used == IF activeProvider = "gemini" THEN chatSessions ELSE openAISessions
        other == IF activeProvider = "gemini" THEN openAISessions ELSE chatSessions
    IN  /\ other = <<>>
        /\ DOMAIN used = AgentIdsOf(agents)
        /\ \A a \in DOMAIN used :
             /\ used[a] = Ref(epoch, a)
             /\ heap[used[a]] =
                  IF activeProvider = "gemini" THEN <<>>
                  ELSE <<combinedSystemInstruction(agents[AgentById(agents, a)],
                                                   config.globalRules)>>

\* C15. userSubmit while IDLE or ERROR with a credential available (and the
\* initialization succeeding) appends the USER message after the existing
\* transcript, rebuilds a fresh session for every agent of the roster, sets
\* status ACTIVE, sets currentSpeakerId to the first agent if none was set
\* and keeps it otherwise, emits no topic announcement and leaves turnCount
\* alone.  (When turnCount has already reached the budget, the turn step of
\* the same render at once moves ACTIVE to COMPLETED.)
C15_ImplicitStart ==
    [][ImplicitStart
         => /\ status \in {IDLE, ERROR}
            /\ Len(messages') > Len(messages)
            /\ SubSeq(messages', 1, Len(messages)) = messages
            /\ messages'[Len(messages) + 1].senderId = USER
            /\ <<messages'[Len(messages) + 1].text>> \in {<<t>> : t \in UserTexts}
            /\ \A k \in Appended : messages'[k].text[1] # "Discussion Started"
            /\ FreshSessionsFor(config.agents)'
            /\ turnCount' = turnCount
            /\ currentSpeakerId' = IF currentSpeakerId = None THEN config.agents[1].id
                                   ELSE currentSpeakerId
            /\ \/ status' = ACTIVE /\ Len(messages') = Len(messages) + 1
               \/ turnCount >= Budget /\ status' = COMPLETED /\ LimitFired]_vars

\* After a failed turn of the second agent the user's post restarted the
\* conversation: the sessions are new and the speaker is still that agent.
C15_Witness ==
    /\ lastIntent = "userSubmit"
    /\ epoch = 2
    /\ status = ACTIVE
    /\ timer # <<>>
    /\ turnCount = 1
    /\ currentSpeakerId = config.agents[2].id
    /\ messages[Len(messages)].senderId = USER
    /\ \E k \in 1..Len(messages) : messages[k].text[1] = "LLM API error"

\* handleUserSubmit ran on a COMPLETED conversation in this step.
SubmitWhileCompleted == posts' = posts + 1 /\ status = COMPLETED

\* C16. userSubmit while COMPLETED with a non-empty transcript sets status
\* ACTIVE and resumes with the existing currentSpeakerId (the first agent if
\* none is set); the USER message is appended after the existing transcript
\* and is the prompt of the turn armed next, and every later agent reply is
\* appended after everything already in the transcript, so the USER message
\* precedes every reply of a call started after the submission.  (When
\* turnCount has already reached the budget, the turn step of the same render
\* at once moves ACTIVE back to COMPLETED and no call follows.)
C16_ReactivationOrder ==
    /\ [][SubmitWhileCompleted
            => /\ messages # <<>>
               /\ Len(messages') > Len(messages)
               /\ SubSeq(messages', 1, Len(messages)) = messages
               /\ messages'[Len(messages) + 1].senderId = USER
               /\ turnCount' = turnCount
               /\ currentSpeakerId' = IF currentSpeakerId = None THEN config.agents[1].id
                                      ELSE currentSpeakerId
               /\ IF turnCount < Budget
                  THEN /\ status' = ACTIVE
                       /\ Len(messages') = Len(messages) + 1
                       /\ timer' # <<>>
                       /\ timer'[1].speaker = currentSpeakerId'
                       /\ timer'[1].prompt = <<"user said">> \o messages'[Len(messages')].text
                  ELSE status' = COMPLETED /\ LimitFired /\ timer' = <<>>]_vars
    /\ [][(succ' = succ + 1)
            => /\ Len(messages') > Len(messages)
               /\ SubSeq(messages', 1, Len(messages)) = messages
               /\ messages'[Len(messages) + 1].senderId \notin {SYSTEM, USER, SUMMARY_AGENT}]_vars

\* A stopped conversation was reactivated by a post and an agent has replied
\* since: the post comes before the reply.
C16_Witness ==
    \E i, j, k \in 1..Len(messages) :
        /\ i < j /\ j < k
        /\ messages[i] = StopMessage
        /\ messages[j].senderId = USER
        /\ messages[k].senderId \notin {SYSTEM, USER, SUMMARY_AGENT}
        /\ \A n \in 1..(j - 1) : messages[n].senderId \in {SYSTEM, SUMMARY_AGENT}

\* handleReset ran in this step (no awaited call settled in it).
ResetStep ==
    lastIntent' = "reset" /\ inflight' = inflight /\ summaries' = summaries

\* C17. reset sets status to IDLE, empties the transcript, sets turnCount to 0
\* and currentSpeakerId to none, and leaves the session maps and the active
\* provider/model/credential binding unchanged.
C17_ResetFrame ==
    [][ResetStep
         => /\ status' = IDLE
            /\ messages' = <<>>
            /\ turnCount' = 0
            /\ currentSpeakerId' = None
            /\ timer' = <<>>
            /\ serviceVars' = serviceVars]_vars

\* A conversation with turns taken was reset while a call was outstanding:
\* the conversation state is cleared and the sessions are still there.
C17_Witness ==
    /\ lastIntent = "reset"
    /\ status = IDLE
    /\ messages = <<>>
    /\ turnCount = 0
    /\ currentSpeakerId = None
    /\ inflight # <<>>
    /\ \E r \in DOMAIN heap : Len(heap[r]) >= 2
    /\ (chatSessions # <<>> \/ openAISessions # <<>>)

\* C18. Whenever turn execution is about to invoke generate for the current
\* speaker, a session exists for that agent: the sessions follow every roster
\* change, also when the roster is edited while the conversation is not
\* ACTIVE and the conversation is then reactivated by userSubmit.
C18_SessionForSpeaker ==
    (status = ACTIVE /\ timer # <<>>) => SessionOf(timer[1].speaker) # {}

\* C19. initialize called with a credential that is empty after trimming
\* fails and leaves the session maps, the sessions' contents and the active
\* provider, model and credential binding exactly as they were.
C19_BlankKeyRejectedUntouched ==
    [][(lastIntent' = "initializeRejected")
         => (serviceVars' = serviceVars /\ inflight' = inflight)]_vars

\* A blank credential was rejected while sessions with a recorded exchange
\* and a binding existed.
C19_Witness ==
    /\ lastIntent = "initializeRejected"
    /\ epoch >= 1
    /\ activeApiKey # <<>>
    /\ (chatSessions # <<>> \/ openAISessions # <<>>)
    /\ \E r \in DOMAIN heap : Len(heap[r]) >= 2

\* The session memory of an agent under a generic (message-list) provider.
Memory(a) == heap[openAISessions[a]]
MemoryAfter(a) == heap'[openAISessions'[a]]

\* C20. For a generic provider session, a successful generate appends exactly
\* two entries to that agent's session memory, the prompt then the response,
\* and a generate that fails leaves every agent's session memory unchanged.
C20_ExchangeAppended ==
    /\ [][(succ' = succ + 1)
            => \A i \in 1..Len(inflight) :
                 (/\ inflight' = RemoveAt(inflight, i)
                  /\ inflight[i].provider # "gemini"
                  /\ inflight[i].speaker \in DOMAIN openAISessions)
                    => /\ inflight[i].speaker \in DOMAIN openAISessions'
                       /\ MemoryAfter(inflight[i].speaker) =
                            Memory(inflight[i].speaker)
                               \o <<[role |-> "user", content |-> inflight[i].prompt],
                                    [role |-> "assistant", content |-> <<"reply">>]>>]_vars
    /\ [][(CallCompleted /\ succ' = succ)
            => \A a \in DOMAIN openAISessions :
                 a \in DOMAIN openAISessions' /\ MemoryAfter(a) = Memory(a)]_vars

\* An awaited summary call settled in this step.
SummarySettled == Len(summaries') < Len(summaries)

\* The summary call that settled in this step failed.
SummaryFailed ==
    /\ SummarySettled
    /\ ~\E k \in Appended : messages'[k] = Message(SUMMARY_AGENT, <<"summary">>)

\* The text the catch block of summarize posts for a call.
FallbackText(call) ==
    <<"summary failed",
      IF call.apiKey = <<>> THEN "API Key is missing for summary generation."
      ELSE "provider error",
      "local summary">> \o call.fallback

Prefixes(msgs) == {SubSeq(msgs, 1, n) : n \in 0..Len(msgs)}

\* C21. A failing summary call is recovered locally: exactly one message from
\* the SUMMARY sender with the failure reason and the local fallback summary
\* is appended, no external call is started, and the status is left as it is
\* (COMPLETED stays COMPLETED, ERROR never results).  The fallback is defined
\* for every transcript, the empty one and those with only SYSTEM messages
\* included, for which it reports that there are no recent messages.
C21_SummaryFailureRecovered ==
    /\ [][SummaryFailed
            => /\ \E i \in 1..Len(summaries) :
                    /\ summaries' = RemoveAt(summaries, i)
                    /\ messages' = Append(messages,
                                          Message(SUMMARY_AGENT, FallbackText(summaries[i])))
               /\ status' = status
               /\ (status = COMPLETED => status' = COMPLETED)
               /\ inflight' = inflight
               /\ isSummarizing' = FALSE]_vars
    /\ [](\A i \in 1..Len(summaries) :
             /\ Len(summaries[i].fallback) >= 3
             /\ summaries[i].fallback[1] = "topic")
    /\ [](\A p \in Prefixes(messages) :
             LET s == buildLocalSummary(p, config.topic)
             IN  /\ Len(s) >= 3
                 /\ s[1] = "topic" /\ s[2] = config.topic
                 /\ (NonSystemIdx(p) = {}) <=> (s = <<"topic", config.topic, "no recent messages">>)
                 /\ (NonSystemIdx(p) # {}) <=> (s[3] = "highlights"))

\* The summary of a stopped conversation with no agent or user message
\* failed: the fallback over a SYSTEM-only transcript was posted and the
\* status is still COMPLETED.
C21_Witness ==
    /\ status = COMPLETED
    /\ summaries = <<>>
    /\ ~isSummarizing
    /\ messages # <<>>
    /\ messages[Len(messages)] =
         Message(SUMMARY_AGENT, <<"summary failed", "provider error", "local summary",
                                  "topic", config.topic, "no recent messages">>)
    /\ \A k \in 1..(Len(messages) - 1) : messages[k].senderId = SYSTEM

\* handleStart passed its credential check in this step (its "Reset state"
\* ran, whether initializeChats then succeeded or threw).
StartStep == lastIntent' \in {"start", "startInitFails"} /\ epoch' = epoch + 1

\* C22. The transcript is append-only within a conversation: every step other
\* than start and reset (userSubmit, stop, a keyless start, turn completion,
\* turn failure, limit reached, summary start and summary completion) keeps
\* all existing messages in place and in order and only appends at the end.
C22_AppendOnly ==
    [][(~StartStep /\ ~ResetStep)
         => /\ Len(messages') >= Len(messages)
            /\ SubSeq(messages', 1, Len(messages)) = messages]_vars

\* One conversation in which a turn succeeded, the user posted, the user
\* stopped, and the summary was started and arrived: the entries are in the
\* order in which the steps happened, after the start announcement.
C22_Witness ==
    /\ Len(messages) = 6
    /\ messages[1] = Message(SYSTEM, <<"Discussion Started", config.topic>>)
    /\ messages[2].senderId \notin {SYSTEM, USER, SUMMARY_AGENT}
    /\ messages[3].senderId = USER
    /\ messages[4] = StopMessage
    /\ messages[5] = Message(SYSTEM, <<"Summarizing...">>)
    /\ messages[6].senderId = SUMMARY_AGENT

\* The arrows of the status diagram, for the status change of one step.  A
\* userSubmit whose render finds the budget spent passes through ACTIVE to
\* COMPLETED within the step.
DiagramStep ==
    \/ status = IDLE /\ status' = ACTIVE
    \/ status = ACTIVE /\ status' \in {PAUSED, COMPLETED, ERROR}
    \/ status \in {PAUSED, COMPLETED, ERROR} /\ status' = ACTIVE
    \/ ResetStep /\ status' = IDLE
    \/ lastIntent' = "startInitFails" /\ epoch' = epoch + 1 /\ status' = ERROR
    \/ posts' = posts + 1 /\ lastIntent' = "userSubmit" /\ LimitFired /\ status' = COMPLETED

\* C23. Every change of status follows the state diagram: IDLE to ACTIVE,
\* ACTIVE to PAUSED, COMPLETED or ERROR, PAUSED/COMPLETED/ERROR back to
\* ACTIVE, any state to IDLE by reset, and a start ending in ERROR when the
\* initialization fails; in particular the status never goes from IDLE,
\* PAUSED or COMPLETED to ERROR because a generation completion arrived late.
C23_StatusFollowsDiagram ==
    /\ [][(status' # status) => DiagramStep]_vars
    /\ [][(CallCompleted /\ status \in {IDLE, PAUSED, COMPLETED}) => status' # ERROR]_vars

SnapshotBudget == snapshot.maxTurns * Len(snapshot.agents)

\* C24. Turn execution uses the configuration captured at the last
\* initialization: a generate call is started only below the budget of that
\* snapshot and with its roster, and the limit fires at the snapshot's budget,
\* so edits made while the conversation is not ACTIVE do not change the budget
\* or roster of a run that a userSubmit reactivates without reinitializing.
C24_TurnsUseSnapshot ==
    /\ [][CallStarted
            => /\ turnCount < SnapshotBudget
               /\ inflight'[Len(inflight')].agents = snapshot.agents]_vars
    /\ [][LimitFired => turnCount' >= SnapshotBudget']_vars
    /\ [](timer # <<>> => (timer[1].agents = snapshot.agents /\ turnCount < SnapshotBudget))

Providers == {"gemini", "groq", "perplexity", "openrouter", "openai", "openai-compatible"}

\* The recognition rules in their fixed order: the provider, the prefixes
\* compared as typed, and the prefixes compared without regard to letter case.
ProviderRules ==
    <<[provider |-> "gemini", exact |-> {<<"A", "I", "z", "a">>},
       folded |-> {<<"y", "a", "2", "9", ".">>}],
      [provider |-> "groq", exact |-> {<<"g", "s", "k", "_">>}, folded |-> {}],
      [provider |-> "perplexity", exact |-> {<<"p", "p", "l", "x", "-">>}, folded |-> {}],
      [provider |-> "openrouter",
       exact |-> {<<"s", "k", "-", "o", "r", "-">>, <<"o", "r", "-">>}, folded |-> {}],
      [provider |-> "openai", exact |-> {<<"s", "k", "-">>}, folded |-> {}]>>

\* The provider of the first rule one of whose prefixes begins the string,
\* every prefix compared as typed; the generic provider when there is none.
FirstLiteralMatch(k) ==
    LET hits == {i \in 1..Len(ProviderRules) :
                    \E p \in ProviderRules[i].exact \cup ProviderRules[i].folded :
                        startsWith(k, p)}
    IN  IF hits = {} THEN "openai-compatible"
        ELSE ProviderRules[CHOOSE i \in hits : \A j \in hits : i <= j].provider

\* The same, with the folded prefixes compared against the lower-cased string.
FirstMatch(k) ==
    LET hits == {i \in 1..Len(ProviderRules) :
                    \/ \E p \in ProviderRules[i].exact : startsWith(k, p)
                    \/ \E p \in ProviderRules[i].folded : startsWith(toLowerCase(k), p)}
    IN  IF hits = {} THEN "openai-compatible"
        ELSE ProviderRules[CHOOSE i \in hits : \A j \in hits : i <= j].provider

\* C25 as stated. The provider resolved for a credential is the provider of
\* the first rule, in the fixed order, whose literal prefix begins the trimmed
\* credential, the generic compatible provider when none does, and the default
\* provider when the credential is blank; a credential beginning with 'sk-or-'
\* never resolves to the provider of the 'sk-' prefix.
C25_FirstLiteralPrefixWins ==
    /\ config.provider \in Providers
    /\ config.provider = IF Trim(config.apiKey) = <<>> THEN "gemini"
                         ELSE FirstLiteralMatch(Trim(config.apiKey))
    /\ startsWith(Trim(config.apiKey), <<"s", "k", "-", "o", "r", "-">>)
          => config.provider = "openrouter"

\* C25, amended. As stated, except that the first provider's 'ya29.' prefix
\* is compared against the lower-cased credential (all other prefixes are
\* compared as typed).
C25_FirstPrefixWins ==
    /\ config.provider \in Providers
    /\ config.provider = IF Trim(config.apiKey) = <<>> THEN "gemini"
                         ELSE FirstMatch(Trim(config.apiKey))
    /\ startsWith(Trim(config.apiKey), <<"s", "k", "-", "o", "r", "-">>)
          => config.provider = "openrouter"

\* A padded credential that begins with 'sk-or-', and so also with 'sk-', was
\* typed and resolved to the fourth provider.
C25_Witness ==
    /\ config.apiKey = <<" ", "s", "k", "-", "o", "r", "-", "1">>
    /\ config.provider = "openrouter"

\* The prompt is the raw topic: the transcript the turn was derived from held
\* no message of an agent, of the user or of the summary agent.
RawTopic(prompt) == prompt = <<config.topic>>

\* C26. Whenever turn execution invokes generate with the raw topic as the
\* prompt, the speaker is the first agent in roster order: a non-initial agent
\* never opens the conversation, also when the transcript is non-empty but
\* holds only SYSTEM messages.
C26_FirstAgentOpens ==
    /\ []((timer # <<>> /\ RawTopic(timer[1].prompt))
            => /\ timer[1].speaker = config.agents[1].id
               /\ currentSpeakerId = config.agents[1].id
               /\ NonSystemIdx(messages) = {})
    /\ [][(CallStarted /\ RawTopic(inflight'[Len(inflight')].prompt))
            => /\ inflight'[Len(inflight')].speaker = config.agents[1].id
               /\ currentSpeakerId = config.agents[1].id
               /\ NonSystemIdx(messages) = {}]_vars

\* In a second conversation the opening call, made with the raw topic for the
\* first agent over a transcript holding only the SYSTEM announcement, is
\* outstanding.
C26_Witness ==
    /\ epoch = 2
    /\ status = ACTIVE
    /\ messages = <<Message(SYSTEM, <<"Discussion Started", config.topic>>)>>
    /\ inflight # <<>>
    /\ RawTopic(inflight[Len(inflight)].prompt)
    /\ inflight[Len(inflight)].speaker = config.agents[1].id
    /\ \A r \in inflight[Len(inflight)].sess : r.e = epoch

\* The messages of the transcript written by agents.
AgentMessages == {k \in 1..Len(messages) : messages[k].senderId \notin {USER, SYSTEM, SUMMARY_AGENT}}

\* C27. In every reachable state turnCount equals the number of messages in
\* the transcript whose sender is an agent, under every interleaving of start,
\* stop, reset, userSubmit and generation completions, including completions
\* that arrive after a reset or a restart.
C27_TurnCountCountsReplies == turnCount = Cardinality(AgentMessages)

\* After a restart a reply of the earlier conversation and a reply of the new
\* one have both arrived: two agent messages follow the announcement.
C27_Witness ==
    /\ epoch = 2
    /\ lastIntent = "start"
    /\ turnCount = 2
    /\ inflight = <<>>
    /\ Len(messages) >= 3
    /\ messages[1] = Message(SYSTEM, <<"Discussion Started", config.topic>>)
    /\ messages[2].senderId = config.agents[1].id
    /\ messages[3].senderId = config.agents[1].id

SummaryMessages == {k \in 1..Len(messages) : messages[k].senderId = SUMMARY_AGENT}

\* C28. In every reachable state the transcript holds at most one message
\* from the SUMMARY sender, also when reset or start is issued while a summary
\* call is in flight and the new conversation later completes and is
\* summarized itself.
C28_AtMostOneSummary == Cardinality(SummaryMessages) <= 1

\* The conversation is COMPLETED, the limit has been announced and the budget
\* is still spent.
CompletedOnLimit ==
    /\ status = COMPLETED
    /\ turnCount >= Budget
    /\ \E k \in 1..Len(messages) : messages[k] = LimitMessage

\* C29. Once a conversation has completed because the turn limit was reached,
\* a userSubmit produces no agent reply: the USER message is appended, the
\* status passes through ACTIVE back to COMPLETED with one more limit message,
\* no turn is armed and no generate call is made, the counter and the speaker
\* stay, and no new summary is started; the conversation is again completed on
\* the limit, so the same holds for every further userSubmit until start or
\* reset is issued or the budget is raised.
C29_NoReplyAfterLimit ==
    [][(CompletedOnLimit /\ posts' = posts + 1 /\ lastIntent' = "userSubmit")
         => /\ Len(messages') = Len(messages) + 2
            /\ SubSeq(messages', 1, Len(messages)) = messages
            /\ messages'[Len(messages) + 1].senderId = USER
            /\ messages'[Len(messages) + 2] = LimitMessage
            /\ status' = COMPLETED
            /\ timer' = <<>>
            /\ inflight' = inflight
            /\ turnCount' = turnCount
            /\ summaryCalls' = summaryCalls
            /\ CompletedOnLimit']_vars

\* Two posts were made after the limit was reached: each was followed by one
\* more limit message and no reply.
C29_Witness ==
    /\ status = COMPLETED
    /\ posts = 2
    /\ turnCount = Budget
    /\ inflight = <<>>
    /\ Len(messages) >= 5
    /\ messages[Len(messages)] = LimitMessage
    /\ messages[Len(messages) - 1].senderId = USER
    /\ messages[Len(messages) - 2] = LimitMessage
    /\ messages[Len(messages) - 3].senderId = USER
    /\ Cardinality({k \in 1..Len(messages) : messages[k] = LimitMessage}) = 3

\* Something the orchestration effect depends on changes in this step.
TurnInputsChanged ==
    \/ status' # status
    \/ currentSpeakerId' # currentSpeakerId
    \/ messages' # messages
    \/ config'.agents # config.agents
    \/ config'.maxTurns # config.maxTurns

\* C30. A turn in its pacing delay is abandoned without a generate call
\* whenever status, currentSpeakerId, the transcript, the roster or maxTurns
\* changes during the delay; a pending turn is always the one derived from the
\* current state, so when a generate call is made its speaker and its prompt
\* are those derived from the speaker pointer and the transcript as they are
\* at that moment.
C30_CallMatchesCurrentState ==
    /\ [](timer # <<>>
            => /\ status = ACTIVE
               /\ timer[1].speaker = currentSpeakerId
               /\ timer[1].prompt = promptText(Ui, config)
               /\ timer[1].agents = config.agents)
    /\ [][(timer # <<>> /\ TurnInputsChanged) => ~CallStarted]_vars
    /\ [][CallStarted
            => /\ status = ACTIVE
               /\ inflight'[Len(inflight')].speaker = currentSpeakerId
               /\ inflight'[Len(inflight')].prompt = promptText(Ui, config)
               /\ inflight'[Len(inflight')].agents = config.agents
               /\ messages' = messages]_vars

\* The user posted during the opening turn's delay; the turn was armed again
\* and its call, now outstanding, carries the post as prompt.
C30_Witness ==
    /\ started
    /\ status = ACTIVE
    /\ turnCount = 0
    /\ timer = <<>>
    /\ Len(inflight) = 1
    /\ Len(messages) = 2
    /\ messages[2].senderId = USER
    /\ inflight[1].prompt = <<"user said">> \o messages[2].text
    /\ inflight[1].speaker = currentSpeakerId

====
